---- MODULE Spec2Model ----
(***************************************************************************)
(* json_deref: resolution of `{reference}` placeholders in the string      *)
(* leaves of a JSON document.                                              *)
(*                                                                         *)
(* Two pipelines are modelled from the sources:                            *)
(*   - lib.rs: resolve_json = prepare_path_map, convert_to_absolute_paths, *)
(*     extract_values_from_paths, resolve_values (string-keyed maps);      *)
(*   - parsing/: make_deps_path_map, expand_absolute_paths,                *)
(*     extract_values_by_paths, values_resolving::resolve_values           *)
(*     (AbsolutePath-keyed maps, typed values).                            *)
(*                                                                         *)
(* A text is a sequence of bytes; positions are 1-based, so the Rust byte  *)
(* offset p is the position p + 1 here.                                    *)
(***************************************************************************)
EXTENDS Integers, Sequences, FiniteSets

VARIABLES impl, order, input, pc, path_map, json_abs, paths, extracted_values, output,
          base, reference, resolved

vars == <<impl, order, input, pc, path_map, json_abs, paths, extracted_values, output,
          base, reference, resolved>>

(***************************************************************************)
(* Texts                                                                   *)
(***************************************************************************)
Slash == "/"
Open == "{"
Close == "}"
DotDot == <<".", ".">>

\* a text is a sequence of UTF-8 bytes.  An ASCII byte is written as its character;
\* the two bytes of U+00E9 (e with acute accent) are written "C3" and "A9".
EAcute == <<"C3", "A9">>
IsContinuation(byte) == byte = "A9"

\* str::find(ch) on text[from..]: the first position >= from holding ch, 0 for None
Find(text, from, ch) ==
    IF \E i \in from..Len(text) : text[i] = ch
    THEN CHOOSE i \in from..Len(text) :
            text[i] = ch /\ \A j \in from..(i - 1) : text[j] # ch
    ELSE 0

StartsWith(text, ch) == Len(text) > 0 /\ text[1] = ch
EndsWith(text, ch) == Len(text) > 0 /\ text[Len(text)] = ch
HasPrefix(text, prefix) ==
    Len(text) >= Len(prefix) /\ SubSeq(text, 1, Len(prefix)) = prefix
HasSuffix(text, suffix) ==
    Len(text) >= Len(suffix)
        /\ SubSeq(text, Len(text) - Len(suffix) + 1, Len(text)) = suffix

\* str::split('/'): always at least one segment, empty segments kept
RECURSIVE Split(_)
Split(text) ==
    LET i == Find(text, 1, Slash)
    IN  IF i = 0 THEN <<text>>
        ELSE <<SubSeq(text, 1, i - 1)>> \o Split(SubSeq(text, i + 1, Len(text)))

\* [&str]::join("/")
RECURSIVE Join(_)
Join(parts) ==
    IF parts = <<>> THEN <<>>
    ELSE IF Len(parts) = 1 THEN parts[1]
    ELSE parts[1] \o <<Slash>> \o Join(Tail(parts))

NonEmpty(part) == part # <<>>

\* Vec::pop: no effect on an empty vector
Pop(parts) == IF parts = <<>> THEN <<>> ELSE SubSeq(parts, 1, Len(parts) - 1)

\* str::trim_start_matches('/') and str::trim_end_matches('/')
RECURSIVE TrimStart(_)
TrimStart(text) == IF StartsWith(text, Slash) THEN TrimStart(Tail(text)) ELSE text

RECURSIVE TrimEnd(_)
TrimEnd(text) ==
    IF EndsWith(text, Slash) THEN TrimEnd(SubSeq(text, 1, Len(text) - 1)) ELSE text

\* u64 / usize Display: the decimal digits, no sign, no leading zero
Digit(d) == <<"0", "1", "2", "3", "4", "5", "6", "7", "8", "9">>[d + 1]

RECURSIVE to_string(_)
to_string(n) ==
    IF n < 10 THEN <<Digit(n)>> ELSE to_string(n \div 10) \o <<Digit(n % 10)>>

\* HashMap::insert
Insert(map, key, value) ==
    [k \in (DOMAIN map) \cup {key} |-> IF k = key THEN value ELSE map[k]]

EmptyMap == <<>>

(***************************************************************************)
(* serde_json::Value.  Every value is a record of the same four fields so  *)
(* that any two values can be compared; kids is a sequence of              *)
(* <<key, value>> pairs, the key of an array element being empty.          *)
(***************************************************************************)
Null == [t |-> "null", s |-> <<>>, n |-> 0, kids |-> <<>>]
Bool(b) == [t |-> "bool", s |-> <<>>, n |-> IF b THEN 1 ELSE 0, kids |-> <<>>]
Num(number) == [t |-> "num", s |-> <<>>, n |-> number, kids |-> <<>>]
Str(text) == [t |-> "str", s |-> text, n |-> 0, kids |-> <<>>]
Arr(values) ==
    [t |-> "arr", s |-> <<>>, n |-> 0,
     kids |-> [i \in 1..Len(values) |-> <<<<>>, values[i]>>]]
Obj(members) == [t |-> "obj", s |-> <<>>, n |-> 0, kids |-> members]

Reverse(seq) == [i \in 1..Len(seq) |-> seq[Len(seq) + 1 - i]]

\* the order in which `for (key, value) in map` visits the members of an object
Visit(members, ord) == IF ord = "rev" THEN Reverse(members) ELSE members

(***************************************************************************)
(* lib.rs                                                                  *)
(***************************************************************************)
RECURSIVE ApplySegments(_, _)
ApplySegments(base_parts, segments) ==
    IF segments = <<>> THEN base_parts
    ELSE LET segment == Head(segments)
         IN  ApplySegments(
                 IF segment = DotDot THEN Pop(base_parts)
                 ELSE IF segment = <<>> THEN base_parts
                 ELSE Append(base_parts, segment),
                 Tail(segments))

resolve_reference_path(base_path, relative_path) ==
    LET base_parts == Pop(SelectSeq(Split(base_path), NonEmpty))
    IN  <<Slash>> \o Join(ApplySegments(base_parts, Split(relative_path)))

\* the scanning loop of prepare_path_map over one string leaf
RECURSIVE PrepareText(_, _, _, _)
PrepareText(text, start_pos, base_path, map) ==
    LET absolute_start == Find(text, start_pos, Open)
        absolute_end == Find(text, absolute_start, Close)
        ref == SubSeq(text, absolute_start + 1, absolute_end - 1)
    IN  IF absolute_start = 0 THEN map
        ELSE IF absolute_end = 0 THEN map
        ELSE IF StartsWith(ref, Slash)
        THEN PrepareText(text, absolute_end + 1, base_path, Insert(map, ref, ref))
        ELSE PrepareText(text, absolute_end + 1, base_path,
                         Insert(map, ref, resolve_reference_path(base_path, ref)))

RECURSIVE prepare_path_map(_, _, _, _)
RECURSIVE PrepareMembers(_, _, _, _, _)
PrepareMembers(members, isObject, base_path, map, ord) ==
    IF members = <<>> THEN map
    ELSE LET key == Head(members)[1]
             value == Head(members)[2]
             current_absolute_path ==
                 IF isObject THEN base_path \o <<Slash>> \o key ELSE base_path
         IN  PrepareMembers(Tail(members), isObject, base_path,
                            prepare_path_map(value, current_absolute_path, map, ord), ord)

prepare_path_map(json, base_path, map, ord) ==
    CASE json.t = "obj" -> PrepareMembers(Visit(json.kids, ord), TRUE, base_path, map, ord)
      [] json.t = "arr" -> PrepareMembers(json.kids, FALSE, base_path, map, ord)
      [] json.t = "str" -> PrepareText(json.s, 1, base_path, map)
      [] OTHER -> map

\* str indexing: text[start_pos..] panics unless start_pos is on a char boundary
\* (the end of the text, or a byte that is not a UTF-8 continuation byte)
IsCharBoundary(text, pos) == pos > Len(text) \/ ~IsContinuation(text[pos])

\* the rewriting loop of convert_to_absolute_paths over one string leaf.  The loop
\* reads only updated_text[start_pos..] and the fixed map, so an iteration that
\* starts with an unscanned suffix it has started with before repeats for ever:
\* seen holds the suffixes of the earlier iterations.
RECURSIVE ConvertText(_, _, _, _)
ConvertText(updated_text, start_pos, map, seen) ==
    LET absolute_start == Find(updated_text, start_pos, Open)
        absolute_end == Find(updated_text, absolute_start, Close)
        relative_key == SubSeq(updated_text, absolute_start + 1, absolute_end - 1)
        suffix == SubSeq(updated_text, start_pos, Len(updated_text))
    IN  IF ~IsCharBoundary(updated_text, start_pos)
        THEN [status |-> "panic", text |-> updated_text]
        ELSE IF absolute_start = 0 THEN [status |-> "ok", text |-> updated_text]
        ELSE IF absolute_end = 0 THEN [status |-> "ok", text |-> updated_text]
        ELSE IF suffix \in seen THEN [status |-> "diverged", text |-> updated_text]
        ELSE IF relative_key \in DOMAIN map
        THEN LET absolute_path == map[relative_key]
             IN  ConvertText(
                     SubSeq(updated_text, 1, absolute_start - 1)
                         \o <<Open>> \o absolute_path \o <<Close>>
                         \o SubSeq(updated_text, absolute_end + 1, Len(updated_text)),
                     absolute_start + Len(absolute_path), map, seen \cup {suffix})
        ELSE ConvertText(updated_text, absolute_end + 1, map, seen \cup {suffix})

RECURSIVE convert_to_absolute_paths(_, _)
convert_to_absolute_paths(json, map) ==
    CASE json.t \in {"obj", "arr"} ->
            [json EXCEPT !.kids =
                [i \in 1..Len(json.kids) |->
                    <<json.kids[i][1], convert_to_absolute_paths(json.kids[i][2], map)>>]]
      [] json.t = "str" -> Str(ConvertText(json.s, 1, map, {}).text)
      [] OTHER -> json

\* how the walk of convert_to_absolute_paths ends: the first string leaf, in the
\* order of the walk, whose loop panics or never ends stops it there
RECURSIVE ConvertStatus(_, _, _)
RECURSIVE ConvertMembersStatus(_, _, _)
ConvertMembersStatus(members, map, ord) ==
    IF members = <<>> THEN "ok"
    ELSE LET first == ConvertStatus(Head(members)[2], map, ord)
         IN  IF first # "ok" THEN first
             ELSE ConvertMembersStatus(Tail(members), map, ord)

ConvertStatus(json, map, ord) ==
    CASE json.t = "obj" -> ConvertMembersStatus(Visit(json.kids, ord), map, ord)
      [] json.t = "arr" -> ConvertMembersStatus(json.kids, map, ord)
      [] json.t = "str" -> ConvertText(json.s, 1, map, {}).status
      [] OTHER -> "ok"

\* let paths: HashSet<String> = path_map.values().cloned().collect();
Values(map) == {map[k] : k \in DOMAIN map}

\* mutant: only string leaves are recorded, a requested number leaf is skipped
RECURSIVE extract_values_from_paths_StringsOnly(_, _, _, _, _)
extract_values_from_paths_StringsOnly(json, wanted, current_path, extracted, ord) ==
    LET RECURSIVE Members(_, _, _)
        Members(members, index, acc) ==
            IF members = <<>> THEN acc
            ELSE LET new_path ==
                         IF json.t = "obj" THEN current_path \o <<Slash>> \o Head(members)[1]
                         ELSE current_path \o <<Slash>> \o to_string(index)
                 IN  Members(Tail(members), index + 1,
                             extract_values_from_paths_StringsOnly(
                                 Head(members)[2], wanted, new_path, acc, ord))
    IN  CASE json.t = "obj" -> Members(Visit(json.kids, ord), 0, extracted)
          [] json.t = "arr" -> Members(json.kids, 0, extracted)
          [] json.t = "str" ->
                IF current_path \in wanted THEN Insert(extracted, current_path, json.s)
                ELSE extracted
          [] OTHER -> extracted

RECURSIVE extract_values_from_paths(_, _, _, _, _)
RECURSIVE ExtractMembers(_, _, _, _, _, _, _)
ExtractMembers(members, isObject, index, wanted, current_path, extracted, ord) ==
    IF members = <<>> THEN extracted
    ELSE LET key == Head(members)[1]
             value == Head(members)[2]
             new_path ==
                 IF isObject THEN current_path \o <<Slash>> \o key
                 ELSE current_path \o <<Slash>> \o to_string(index)
         IN  ExtractMembers(Tail(members), isObject, index + 1, wanted, current_path,
                            extract_values_from_paths(value, wanted, new_path, extracted,
                                                      ord),
                            ord)

extract_values_from_paths(json, wanted, current_path, extracted, ord) ==
    CASE json.t = "obj" ->
            ExtractMembers(Visit(json.kids, ord), TRUE, 0, wanted, current_path, extracted,
                           ord)
      [] json.t = "arr" ->
            ExtractMembers(json.kids, FALSE, 0, wanted, current_path, extracted, ord)
      [] json.t = "str" ->
            IF current_path \in wanted THEN Insert(extracted, current_path, json.s)
            ELSE extracted
      [] json.t = "num" ->
            IF current_path \in wanted THEN Insert(extracted, current_path, to_string(json.n))
            ELSE extracted
      [] OTHER -> extracted

\* mutant: the text that comes out of the pass is scanned and substituted once more,
\* so a placeholder that came in with a value is resolved too
ResolveText_Rescan(resolved_text, start_pos, context) ==
    LET RECURSIVE Pass(_, _)
        Pass(text, pos) ==
            LET absolute_start == Find(text, pos, Open)
                absolute_end == Find(text, absolute_start, Close)
                absolute_key == SubSeq(text, absolute_start + 1, absolute_end - 1)
            IN  IF absolute_start = 0 THEN text
                ELSE IF absolute_end = 0 THEN text
                ELSE IF absolute_key \in DOMAIN context
                THEN LET value == context[absolute_key]
                     IN  Pass(SubSeq(text, 1, absolute_start - 1) \o value
                                  \o SubSeq(text, absolute_end + 1, Len(text)),
                              absolute_start + Len(value))
                ELSE Pass(text, absolute_end + 1)
    IN  Pass(Pass(resolved_text, start_pos), 1)

\* the substitution loop of lib.rs resolve_values over one string leaf
RECURSIVE ResolveText(_, _, _)
ResolveText(resolved_text, start_pos, context) ==
    LET absolute_start == Find(resolved_text, start_pos, Open)
        absolute_end == Find(resolved_text, absolute_start, Close)
        absolute_key == SubSeq(resolved_text, absolute_start + 1, absolute_end - 1)
    IN  IF absolute_start = 0 THEN resolved_text
        ELSE IF absolute_end = 0 THEN resolved_text
        ELSE IF absolute_key \in DOMAIN context
        THEN LET value == context[absolute_key]
             IN  ResolveText(
                     SubSeq(resolved_text, 1, absolute_start - 1) \o value
                         \o SubSeq(resolved_text, absolute_end + 1, Len(resolved_text)),
                     absolute_start + Len(value), context)
        ELSE ResolveText(resolved_text, absolute_end + 1, context)

\* mutant: a number leaf is rebuilt as the string of its decimal text
RECURSIVE resolve_values_StringifyNumbers(_, _)
resolve_values_StringifyNumbers(json, context) ==
    CASE json.t \in {"obj", "arr"} ->
            [json EXCEPT !.kids =
                [i \in 1..Len(json.kids) |->
                    <<json.kids[i][1],
                      resolve_values_StringifyNumbers(json.kids[i][2], context)>>]]
      [] json.t = "str" -> Str(ResolveText(json.s, 1, context))
      [] json.t = "num" -> Str(to_string(json.n))
      [] OTHER -> json

RECURSIVE resolve_values(_, _)
resolve_values(json, context) ==
    CASE json.t \in {"obj", "arr"} ->
            [json EXCEPT !.kids =
                [i \in 1..Len(json.kids) |->
                    <<json.kids[i][1], resolve_values(json.kids[i][2], context)>>]]
      [] json.t = "str" -> Str(ResolveText(json.s, 1, context))
      [] OTHER -> json

\* resolve_json as one function of the document and of the order in which the
\* members of an object are visited: how the run ends and, when it returns, the value
resolve_json(doc, ord) ==
    LET map == prepare_path_map(doc, <<>>, EmptyMap, ord)
        status == ConvertStatus(doc, map, ord)
        json_with_absolute_paths == convert_to_absolute_paths(doc, map)
        values == extract_values_from_paths(json_with_absolute_paths, Values(map), <<>>,
                                            EmptyMap, ord)
    IN  IF status = "ok"
        THEN [status |-> "ok", value |-> resolve_values(json_with_absolute_paths, values)]
        ELSE [status |-> status, value |-> Null]

(***************************************************************************)
(* parsing/path.rs: an AbsolutePath is its inner String                    *)
(***************************************************************************)
normalize(path) == <<Slash>> \o TrimEnd(TrimStart(path))

AbsolutePath_new(path) == normalize(path)

\* mutant: `..` with no segment left is kept as a segment of the result
RECURSIVE ResolveSegments_NoClamp(_, _)
ResolveSegments_NoClamp(base_parts, segments) ==
    IF segments = <<>> THEN base_parts
    ELSE LET segment == Head(segments)
         IN  ResolveSegments_NoClamp(
                 IF segment = DotDot
                 THEN (IF base_parts = <<>> THEN <<DotDot>> ELSE Pop(base_parts))
                 ELSE IF segment = <<>> THEN base_parts
                 ELSE Append(base_parts, segment),
                 Tail(segments))

RECURSIVE ResolveSegments(_, _)
ResolveSegments(base_parts, segments) ==
    IF segments = <<>> THEN base_parts
    ELSE LET segment == Head(segments)
         IN  ResolveSegments(
                 IF segment = DotDot THEN Pop(base_parts)
                 ELSE IF segment = <<>> THEN base_parts
                 ELSE Append(base_parts, segment),
                 Tail(segments))

\* mutant: the last segment of the base (the referencing leaf) is not dropped
resolve_with_KeepLast(self, relative_path) ==
    LET base_parts == SelectSeq(Split(self), NonEmpty)
    IN  <<Slash>> \o Join(ResolveSegments(base_parts, Split(relative_path)))

resolve_with(self, relative_path) ==
    LET base_parts == Pop(SelectSeq(Split(self), NonEmpty))
    IN  <<Slash>> \o Join(ResolveSegments(base_parts, Split(relative_path)))

append(self, path) == TrimEnd(self) \o <<Slash>> \o TrimEnd(TrimStart(path))

(***************************************************************************)
(* parsing/mod.rs                                                          *)
(***************************************************************************)
\* the scanning loop of make_deps_path_map over one string leaf
RECURSIVE DepsText(_, _, _, _)
DepsText(text, start_pos, base_path, dependencies) ==
    LET absolute_start == Find(text, start_pos, Open)
        absolute_end == Find(text, absolute_start, Close)
        ref == SubSeq(text, absolute_start + 1, absolute_end - 1)
    IN  IF absolute_start = 0 THEN dependencies
        ELSE IF absolute_end = 0 THEN dependencies
        ELSE IF StartsWith(ref, Slash)
        THEN DepsText(text, absolute_end + 1, base_path,
                      Insert(dependencies, ref, AbsolutePath_new(ref)))
        ELSE DepsText(text, absolute_end + 1, base_path,
                      Insert(dependencies, ref, resolve_with(base_path, ref)))

RECURSIVE make_deps_path_map(_, _, _, _)
RECURSIVE DepsMembers(_, _, _, _, _, _)
DepsMembers(members, isObject, index, base_path, complete_path_map, ord) ==
    IF members = <<>> THEN complete_path_map
    ELSE LET key == Head(members)[1]
             value == Head(members)[2]
             current_absolute_path ==
                 IF isObject THEN append(base_path, key)
                 ELSE append(base_path, to_string(index))
         IN  DepsMembers(Tail(members), isObject, index + 1, base_path,
                         make_deps_path_map(value, current_absolute_path,
                                            complete_path_map, ord), ord)

make_deps_path_map(json, base_path, complete_path_map, ord) ==
    CASE json.t = "obj" ->
            DepsMembers(Visit(json.kids, ord), TRUE, 0, base_path, complete_path_map, ord)
      [] json.t = "arr" ->
            DepsMembers(json.kids, FALSE, 0, base_path, complete_path_map, ord)
      [] json.t = "str" ->
            LET dependencies == DepsText(json.s, 1, base_path, EmptyMap)
            IN  IF DOMAIN dependencies # {}
                THEN Insert(complete_path_map, base_path, dependencies)
                ELSE complete_path_map
      [] OTHER -> complete_path_map

\* the rewriting loop of expand_absolute_paths over one string leaf
RECURSIVE ExpandText(_, _, _, _)
ExpandText(updated_text, start_pos, map, current_path) ==
    LET absolute_start == Find(updated_text, start_pos, Open)
        absolute_end == Find(updated_text, absolute_start, Close)
        relative_key == SubSeq(updated_text, absolute_start + 1, absolute_end - 1)
    IN  IF absolute_start = 0 THEN updated_text
        ELSE IF absolute_end = 0 THEN updated_text
        ELSE IF current_path \in DOMAIN map /\ relative_key \in DOMAIN map[current_path]
        THEN LET absolute_path == map[current_path][relative_key]
             IN  ExpandText(
                     SubSeq(updated_text, 1, absolute_start - 1)
                         \o <<Open>> \o absolute_path \o <<Close>>
                         \o SubSeq(updated_text, absolute_end + 1, Len(updated_text)),
                     absolute_start + Len(absolute_path) + 2, map, current_path)
        ELSE ExpandText(updated_text, absolute_end + 1, map, current_path)

\* mutant: a number leaf is rebuilt as the string of its decimal text
RECURSIVE expand_absolute_paths_StringifyNumbers(_, _, _)
expand_absolute_paths_StringifyNumbers(json, map, current_path) ==
    CASE json.t = "obj" ->
            [json EXCEPT !.kids =
                [i \in 1..Len(json.kids) |->
                    <<json.kids[i][1],
                      expand_absolute_paths_StringifyNumbers(
                          json.kids[i][2], map, append(current_path, json.kids[i][1]))>>]]
      [] json.t = "arr" ->
            [json EXCEPT !.kids =
                [i \in 1..Len(json.kids) |->
                    <<json.kids[i][1],
                      expand_absolute_paths_StringifyNumbers(
                          json.kids[i][2], map, append(current_path, to_string(i - 1)))>>]]
      [] json.t = "str" -> Str(ExpandText(json.s, 1, map, current_path))
      [] json.t = "num" -> Str(to_string(json.n))
      [] OTHER -> json

RECURSIVE expand_absolute_paths(_, _, _)
expand_absolute_paths(json, map, current_path) ==
    CASE json.t = "obj" ->
            [json EXCEPT !.kids =
                [i \in 1..Len(json.kids) |->
                    <<json.kids[i][1],
                      expand_absolute_paths(json.kids[i][2], map,
                                            append(current_path, json.kids[i][1]))>>]]
      [] json.t = "arr" ->
            [json EXCEPT !.kids =
                [i \in 1..Len(json.kids) |->
                    <<json.kids[i][1],
                      expand_absolute_paths(json.kids[i][2], map,
                                            append(current_path, to_string(i - 1)))>>]]
      [] json.t = "str" -> Str(ExpandText(json.s, 1, map, current_path))
      [] OTHER -> json

\* one iteration of the `while let` of make_deps_path_map at start_pos: the loop is
\* left (done), or goes on at the next start_pos; the text is not changed
DepsIteration(text, start_pos) ==
    LET absolute_start == Find(text, start_pos, Open)
        absolute_end == Find(text, absolute_start, Close)
    IN  IF absolute_start = 0 \/ absolute_end = 0
        THEN [done |-> TRUE, text |-> text, pos |-> start_pos]
        ELSE [done |-> FALSE, text |-> text, pos |-> absolute_end + 1]

\* mutant: after a replacement the scan goes on at the `{` of the replacement
ExpandIteration_NoAdvance(updated_text, start_pos, map, current_path) ==
    LET absolute_start == Find(updated_text, start_pos, Open)
        absolute_end == Find(updated_text, absolute_start, Close)
        relative_key == SubSeq(updated_text, absolute_start + 1, absolute_end - 1)
    IN  IF absolute_start = 0 \/ absolute_end = 0
        THEN [done |-> TRUE, text |-> updated_text, pos |-> start_pos]
        ELSE IF current_path \in DOMAIN map /\ relative_key \in DOMAIN map[current_path]
        THEN LET absolute_path == map[current_path][relative_key]
             IN  [done |-> FALSE,
                  text |-> SubSeq(updated_text, 1, absolute_start - 1)
                               \o <<Open>> \o absolute_path \o <<Close>>
                               \o SubSeq(updated_text, absolute_end + 1, Len(updated_text)),
                  pos |-> absolute_start]
        ELSE [done |-> FALSE, text |-> updated_text, pos |-> absolute_end + 1]

\* one iteration of the `while let` of expand_absolute_paths
ExpandIteration(updated_text, start_pos, map, current_path) ==
    LET absolute_start == Find(updated_text, start_pos, Open)
        absolute_end == Find(updated_text, absolute_start, Close)
        relative_key == SubSeq(updated_text, absolute_start + 1, absolute_end - 1)
    IN  IF absolute_start = 0 \/ absolute_end = 0
        THEN [done |-> TRUE, text |-> updated_text, pos |-> start_pos]
        ELSE IF current_path \in DOMAIN map /\ relative_key \in DOMAIN map[current_path]
        THEN LET absolute_path == map[current_path][relative_key]
             IN  [done |-> FALSE,
                  text |-> SubSeq(updated_text, 1, absolute_start - 1)
                               \o <<Open>> \o absolute_path \o <<Close>>
                               \o SubSeq(updated_text, absolute_end + 1, Len(updated_text)),
                  pos |-> absolute_start + Len(absolute_path) + 2]
        ELSE [done |-> FALSE, text |-> updated_text, pos |-> absolute_end + 1]

\* path_map.values().flat_map(|map| map.values().cloned()).collect()
FlatValues(map) == UNION {Values(map[leaf]) : leaf \in DOMAIN map}

\* mutant: only leaves are recorded, a requested object or array is skipped
RECURSIVE extract_values_by_paths_LeavesOnly(_, _, _, _, _)
extract_values_by_paths_LeavesOnly(json, wanted, current_path, extracted, ord) ==
    LET RECURSIVE Members(_, _, _)
        Members(members, index, acc) ==
            IF members = <<>> THEN acc
            ELSE LET new_path ==
                         IF json.t = "obj" THEN append(current_path, Head(members)[1])
                         ELSE append(current_path, to_string(index))
                 IN  Members(Tail(members), index + 1,
                             extract_values_by_paths_LeavesOnly(
                                 Head(members)[2], wanted, new_path, acc, ord))
    IN  CASE json.t = "obj" -> Members(Visit(json.kids, ord), 0, extracted)
          [] json.t = "arr" -> Members(json.kids, 0, extracted)
          [] OTHER ->
                IF current_path \in wanted THEN Insert(extracted, current_path, json)
                ELSE extracted

\* the members of an object are visited in the order of the map (Visit), as in
\* every other walk: two members whose paths are equal overwrite each other
RECURSIVE extract_values_by_paths(_, _, _, _, _)
RECURSIVE ExtractByMembers(_, _, _, _, _, _, _)
ExtractByMembers(members, isObject, index, wanted, current_path, extracted, ord) ==
    IF members = <<>> THEN extracted
    ELSE LET key == Head(members)[1]
             value == Head(members)[2]
             new_path ==
                 IF isObject THEN append(current_path, key)
                 ELSE append(current_path, to_string(index))
         IN  ExtractByMembers(Tail(members), isObject, index + 1, wanted, current_path,
                              extract_values_by_paths(value, wanted, new_path, extracted,
                                                      ord),
                              ord)

extract_values_by_paths(json, wanted, current_path, extracted, ord) ==
    CASE json.t = "obj" ->
            ExtractByMembers(Visit(json.kids, ord), TRUE, 0, wanted, current_path,
                             IF current_path \in wanted
                             THEN Insert(extracted, current_path, json)
                             ELSE extracted,
                             ord)
      [] json.t = "arr" ->
            LET inner == ExtractByMembers(json.kids, FALSE, 0, wanted, current_path,
                                          extracted, ord)
            IN  IF current_path \in wanted THEN Insert(inner, current_path, json)
                ELSE inner
      [] OTHER ->
            IF current_path \in wanted THEN Insert(extracted, current_path, json)
            ELSE extracted

RECURSIVE collect_all_absolute_paths(_, _, _, _)
RECURSIVE CollectMembers(_, _, _, _, _, _)
CollectMembers(members, isObject, index, current_path, source_map, ord) ==
    IF members = <<>> THEN source_map
    ELSE LET key == Head(members)[1]
             value == Head(members)[2]
             new_path ==
                 IF isObject THEN append(current_path, key)
                 ELSE append(current_path, to_string(index))
         IN  CollectMembers(Tail(members), isObject, index + 1, current_path,
                            collect_all_absolute_paths(value, new_path,
                                                       Insert(source_map, new_path, value),
                                                       ord),
                            ord)

collect_all_absolute_paths(json, current_path, source_map, ord) ==
    CASE json.t = "obj" ->
            CollectMembers(Visit(json.kids, ord), TRUE, 0, current_path, source_map, ord)
      [] json.t = "arr" ->
            CollectMembers(json.kids, FALSE, 0, current_path, source_map, ord)
      [] OTHER -> Insert(source_map, current_path, json)

(***************************************************************************)
(* parsing/values_resolving.rs                                             *)
(***************************************************************************)
\* Option<AbsolutePath>: <<path>> for Some(path), <<>> for None
extract_dependency(text) ==
    IF StartsWith(text, Open) /\ EndsWith(text, Close) /\ Len(text) > 2
    THEN <<AbsolutePath_new(SubSeq(text, 2, Len(text) - 1))>>
    ELSE <<>>

\* mutant: an unterminated placeholder ends the text: the rest is dropped
RECURSIVE EmbeddedText_DropTail(_, _, _)
EmbeddedText_DropTail(resolved_text, start_pos, source_map) ==
    LET absolute_start == Find(resolved_text, start_pos, Open)
        absolute_end == Find(resolved_text, absolute_start, Close)
        ref == SubSeq(resolved_text, absolute_start + 1, absolute_end - 1)
        absolute_path == AbsolutePath_new(ref)
    IN  IF absolute_start = 0 THEN resolved_text
        ELSE IF absolute_end = 0 THEN SubSeq(resolved_text, 1, absolute_start - 1)
        ELSE IF /\ StartsWith(ref, Slash)
                /\ absolute_path \in DOMAIN source_map
                /\ source_map[absolute_path].t = "str"
        THEN LET resolved_string == source_map[absolute_path].s
             IN  EmbeddedText_DropTail(
                     SubSeq(resolved_text, 1, absolute_start - 1) \o resolved_string
                         \o SubSeq(resolved_text, absolute_end + 1, Len(resolved_text)),
                     absolute_start + Len(resolved_string), source_map)
        ELSE EmbeddedText_DropTail(resolved_text, absolute_end + 1, source_map)

\* mutant: the scan stops at the first placeholder that is not substituted
RECURSIVE EmbeddedText_StopAtMissing(_, _, _)
EmbeddedText_StopAtMissing(resolved_text, start_pos, source_map) ==
    LET absolute_start == Find(resolved_text, start_pos, Open)
        absolute_end == Find(resolved_text, absolute_start, Close)
        ref == SubSeq(resolved_text, absolute_start + 1, absolute_end - 1)
        absolute_path == AbsolutePath_new(ref)
    IN  IF absolute_start = 0 THEN resolved_text
        ELSE IF absolute_end = 0 THEN resolved_text
        ELSE IF /\ StartsWith(ref, Slash)
                /\ absolute_path \in DOMAIN source_map
                /\ source_map[absolute_path].t = "str"
        THEN LET resolved_string == source_map[absolute_path].s
             IN  EmbeddedText_StopAtMissing(
                     SubSeq(resolved_text, 1, absolute_start - 1) \o resolved_string
                         \o SubSeq(resolved_text, absolute_end + 1, Len(resolved_text)),
                     absolute_start + Len(resolved_string), source_map)
        ELSE resolved_text

\* the loop of resolve_embedded_refs
RECURSIVE EmbeddedText(_, _, _)
EmbeddedText(resolved_text, start_pos, source_map) ==
    LET absolute_start == Find(resolved_text, start_pos, Open)
        absolute_end == Find(resolved_text, absolute_start, Close)
        ref == SubSeq(resolved_text, absolute_start + 1, absolute_end - 1)
        absolute_path == AbsolutePath_new(ref)
    IN  IF absolute_start = 0 THEN resolved_text
        ELSE IF absolute_end = 0 THEN resolved_text
        ELSE IF /\ StartsWith(ref, Slash)
                /\ absolute_path \in DOMAIN source_map
                /\ source_map[absolute_path].t = "str"
        THEN LET resolved_string == source_map[absolute_path].s
             IN  EmbeddedText(
                     SubSeq(resolved_text, 1, absolute_start - 1) \o resolved_string
                         \o SubSeq(resolved_text, absolute_end + 1, Len(resolved_text)),
                     absolute_start + Len(resolved_string), source_map)
        ELSE EmbeddedText(resolved_text, absolute_end + 1, source_map)

resolve_embedded_refs(text, source_map) == Str(EmbeddedText(text, 1, source_map))

\* one iteration of the `while let` of resolve_embedded_refs
EmbeddedIteration(resolved_text, start_pos, source_map) ==
    LET absolute_start == Find(resolved_text, start_pos, Open)
        absolute_end == Find(resolved_text, absolute_start, Close)
        ref == SubSeq(resolved_text, absolute_start + 1, absolute_end - 1)
        absolute_path == AbsolutePath_new(ref)
    IN  IF absolute_start = 0 \/ absolute_end = 0
        THEN [done |-> TRUE, text |-> resolved_text, pos |-> start_pos]
        ELSE IF /\ StartsWith(ref, Slash)
                /\ absolute_path \in DOMAIN source_map
                /\ source_map[absolute_path].t = "str"
        THEN LET resolved_string == source_map[absolute_path].s
             IN  [done |-> FALSE,
                  text |-> SubSeq(resolved_text, 1, absolute_start - 1) \o resolved_string
                               \o SubSeq(resolved_text, absolute_end + 1,
                                         Len(resolved_text)),
                  pos |-> absolute_start + Len(resolved_string)]
        ELSE [done |-> FALSE, text |-> resolved_text, pos |-> absolute_end + 1]

\* mutant: a whole-string placeholder is substituted like an embedded one
RECURSIVE values_resolving_resolve_values_EmbeddedOnly(_, _)
values_resolving_resolve_values_EmbeddedOnly(json, context) ==
    CASE json.t \in {"obj", "arr"} ->
            [json EXCEPT !.kids =
                [i \in 1..Len(json.kids) |->
                    <<json.kids[i][1],
                      values_resolving_resolve_values_EmbeddedOnly(json.kids[i][2],
                                                                   context)>>]]
      [] json.t = "str" -> resolve_embedded_refs(json.s, context)
      [] OTHER -> json

RECURSIVE values_resolving_resolve_values(_, _)
values_resolving_resolve_values(json, context) ==
    CASE json.t \in {"obj", "arr"} ->
            [json EXCEPT !.kids =
                [i \in 1..Len(json.kids) |->
                    <<json.kids[i][1],
                      values_resolving_resolve_values(json.kids[i][2], context)>>]]
      [] json.t = "str" ->
            LET dependency_path == extract_dependency(json.s)
            IN  IF dependency_path # <<>> /\ dependency_path[1] \in DOMAIN context
                THEN context[dependency_path[1]]
                ELSE resolve_embedded_refs(json.s, context)
      [] OTHER -> json

\* mutant: a standalone dependency is replaced only by a scalar of the table
RECURSIVE resolve_recursive_ScalarsOnly(_, _)
resolve_recursive_ScalarsOnly(template, source_map) ==
    CASE template.t \in {"obj", "arr"} ->
            [template EXCEPT !.kids =
                [i \in 1..Len(template.kids) |->
                    <<template.kids[i][1],
                      resolve_recursive_ScalarsOnly(template.kids[i][2], source_map)>>]]
      [] template.t = "str" ->
            LET absolute_path == extract_dependency(template.s)
            IN  IF /\ absolute_path # <<>>
                   /\ absolute_path[1] \in DOMAIN source_map
                   /\ source_map[absolute_path[1]].t \notin {"obj", "arr"}
                THEN source_map[absolute_path[1]]
                ELSE resolve_embedded_refs(template.s, source_map)
      [] OTHER -> template

RECURSIVE resolve_recursive(_, _)
resolve_recursive(template, source_map) ==
    CASE template.t \in {"obj", "arr"} ->
            [template EXCEPT !.kids =
                [i \in 1..Len(template.kids) |->
                    <<template.kids[i][1],
                      resolve_recursive(template.kids[i][2], source_map)>>]]
      [] template.t = "str" ->
            LET absolute_path == extract_dependency(template.s)
            IN  IF absolute_path # <<>> /\ absolute_path[1] \in DOMAIN source_map
                THEN source_map[absolute_path[1]]
                ELSE resolve_embedded_refs(template.s, source_map)
      [] OTHER -> template

(***************************************************************************)
(* Input documents                                                         *)
(***************************************************************************)
MaxParts == 2
MaxNum == 42

\* the pieces a leaf text is put together from: plain text, stray braces, and
\* placeholders with absolute, relative, empty, missing and array references
Fragments ==
    { <<"x">>, <<Open>>, <<Close>>,
      <<Open, "/", "s", Close>>, <<Open, "s", Close>>, <<Open, ".", ".", "/", "s", Close>>,
      <<Open, "/", "n", Close>>,
      <<Open, "/", "m", Close>>, <<Open, "m", Close>>, <<Open, "/">> \o EAcute \o <<Close>>,
      <<Open, "1", Close>>, <<Open, "/", "u", "/", "1", Close>> }

RECURSIVE TextsOf(_)
TextsOf(parts) ==
    IF parts = 0 THEN {<<>>}
    ELSE LET shorter == TextsOf(parts - 1)
         IN  shorter \cup {text \o fragment : text \in shorter, fragment \in Fragments}

Texts == TextsOf(MaxParts)

\* the texts of a leaf that is itself the target of references
TargetTexts == { <<"v">>, <<Open, "n", Close>> }

Numbers == {0, MaxNum}

\* {"a": text, "n": number, "s": target}
FlatDoc(text, target, number) ==
    Obj(<< <<<<"a">>, Str(text)>>, <<<<"n">>, Num(number)>>, <<<<"s">>, Str(target)>> >>)

\* {"p": {"q": {"c": text1}, "s": "v1"}, "r": {"q": {"c": text2}, "s": "v2"}}
TwinDoc(text1, text2) ==
    Obj(<< <<<<"p">>, Obj(<< <<<<"q">>, Obj(<< <<<<"c">>, Str(text1)>> >>)>>,
                             <<<<"s">>, Str(<<"v", "1">>)>> >>)>>,
           <<<<"r">>, Obj(<< <<<<"q">>, Obj(<< <<<<"c">>, Str(text2)>> >>)>>,
                             <<<<"s">>, Str(<<"v", "2">>)>> >>)>> >>)

\* {"1": "one", "n": number, "s": "v", "u": [text, "w", null, true]}
ArrayDoc(text, number) ==
    Obj(<< <<<<"1">>, Str(<<"o", "n", "e">>)>>, <<<<"n">>, Num(number)>>,
           <<<<"s">>, Str(<<"v">>)>>,
           <<<<"u">>, Arr(<<Str(text), Str(<<"w">>), Null, Bool(TRUE)>>)>> >>)

\* {"k{": {"c": text, "s": "v"}, "s": "top"}
BraceKeyDoc(text) ==
    Obj(<< <<<<"k", Open>>, Obj(<< <<<<"c">>, Str(text)>>, <<<<"s">>, Str(<<"v">>)>> >>)>>,
           <<<<"s">>, Str(<<"t", "o", "p">>)>> >>)

\* {"}{x": {"c": text}}
BracePairKeyDoc(text) ==
    Obj(<< <<<<Close, Open, "x">>, Obj(<< <<<<"c">>, Str(text)>> >>)>> >>)

\* placeholders whose absolute reference is not in canonical form: a trailing
\* slash, an empty segment; the placeholder with the empty reference
EdgeFragments ==
    Fragments \cup { <<Open, "/", "s", "/", Close>>,
                     <<Open, "/", "u", "/", "/", "1", Close>>,
                     <<Open, Close>> }

\* {"a": text1, "s": target, "s/": text2}
CollideDoc(text1, text2, target) ==
    Obj(<< <<<<"a">>, Str(text1)>>, <<<<"s">>, Str(target)>>,
           <<<<"s", Slash>>, Str(text2)>> >>)

\* {"details": {"age": number, "bio": "se"},
\*  "profile": {"age": "{/details/age}", "bio": "{/details/bio}"}}
Details == <<"d", "e", "t", "a", "i", "l", "s">>
Profile == <<"p", "r", "o", "f", "i", "l", "e">>
Age == <<"a", "g", "e">>
Bio == <<"b", "i", "o">>

ProfileDoc(number) ==
    Obj(<< <<Details, Obj(<< <<Age, Num(number)>>, <<Bio, Str(<<"s", "e">>)>> >>)>>,
           <<Profile,
             Obj(<< <<Age, Str(<<Open, Slash>> \o Details \o <<Slash>> \o Age
                                  \o <<Close>>)>>,
                    <<Bio, Str(<<Open, Slash>> \o Details \o <<Slash>> \o Bio
                                  \o <<Close>>)>> >>)>> >>)

Docs ==
    {FlatDoc(text, <<"v">>, number) : text \in Texts, number \in Numbers}
    \cup {FlatDoc(text, target, MaxNum) : text \in Texts, target \in TargetTexts}
    \cup {FlatDoc(text, <<>>, MaxNum) : text \in Texts}
    \cup {TwinDoc(text, text) : text \in Texts}
    \cup {TwinDoc(text1, text2) : text1 \in Fragments, text2 \in Fragments}
    \cup {ArrayDoc(text, MaxNum) : text \in Texts \cup EdgeFragments}
    \cup {BraceKeyDoc(text) : text \in Texts}
    \cup {BracePairKeyDoc(text) : text \in Fragments}
    \cup {CollideDoc(text1, text2, target) :
              text1 \in EdgeFragments, text2 \in EdgeFragments, target \in TargetTexts}
    \cup {ProfileDoc(number) : number \in Numbers}

(***************************************************************************)
(* resolve_json, one action per stage                                      *)
(***************************************************************************)
Init ==
    /\ impl \in {"lib", "parsing"}
    /\ order \in {"fwd", "rev"}
    /\ input \in Docs
    /\ pc = "start"
    /\ path_map = EmptyMap
    /\ json_abs = Null
    /\ paths = {}
    /\ extracted_values = EmptyMap
    /\ output = Null
    /\ base = <<>>
    /\ reference = <<>>
    /\ resolved = <<>>

PreparePathMap ==
    /\ impl = "lib"
    /\ pc = "start"
    /\ path_map' = prepare_path_map(input, <<>>, EmptyMap, order)
    /\ pc' = "prepared"
    /\ UNCHANGED <<impl, order, input, json_abs, paths, extracted_values, output,
                   base, reference, resolved>>

ConvertToAbsolutePaths ==
    /\ impl = "lib"
    /\ pc = "prepared"
    /\ LET status == ConvertStatus(input, path_map, order)
       IN  IF status = "ok"
           THEN pc' = "converted" /\ json_abs' = convert_to_absolute_paths(input, path_map)
           ELSE pc' = status /\ json_abs' = json_abs
    /\ UNCHANGED <<impl, order, input, path_map, paths, extracted_values, output,
                   base, reference, resolved>>

ExtractValuesFromPaths ==
    /\ impl = "lib"
    /\ pc = "converted"
    /\ paths' = Values(path_map)
    /\ extracted_values' = extract_values_from_paths(json_abs, paths', <<>>, EmptyMap, order)
    /\ pc' = "extracted"
    /\ UNCHANGED <<impl, order, input, path_map, json_abs, output,
                   base, reference, resolved>>

ResolveValues ==
    /\ impl = "lib"
    /\ pc = "extracted"
    /\ output' = resolve_values(json_abs, extracted_values)
    /\ pc' = "done"
    /\ UNCHANGED <<impl, order, input, path_map, json_abs, paths, extracted_values,
                   base, reference, resolved>>

\* serde_json::from_value into `struct Response { profile: Profile }` with
\* `struct Profile { bio: String, age: String }` (derived Deserialize): an object
\* binds by field name, unknown fields ignored; an array binds by position and
\* must hold exactly the fields; a String field takes a string and nothing else
Member(value, key) ==
    LET hits == {i \in 1..Len(value.kids) : value.kids[i][1] = key}
    IN  IF hits = {} THEN <<>> ELSE <<value.kids[CHOOSE i \in hits : TRUE][2]>>

from_value_String(value) == value.t = "str"

from_value_Profile(value) ==
    CASE value.t = "obj" ->
            /\ Member(value, Bio) # <<>> /\ from_value_String(Member(value, Bio)[1])
            /\ Member(value, Age) # <<>> /\ from_value_String(Member(value, Age)[1])
      [] value.t = "arr" ->
            /\ Len(value.kids) = 2
            /\ from_value_String(value.kids[1][2])
            /\ from_value_String(value.kids[2][2])
      [] OTHER -> FALSE

from_value_Response(value) ==
    CASE value.t = "obj" ->
            Member(value, Profile) # <<>> /\ from_value_Profile(Member(value, Profile)[1])
      [] value.t = "arr" ->
            Len(value.kids) = 1 /\ from_value_Profile(value.kids[1][2])
      [] OTHER -> FALSE

\* resolve_json_to_object::<Response>: resolve_json, then the binding
ResolveJsonToObject ==
    /\ impl = "lib"
    /\ pc = "done"
    /\ resolved' = IF from_value_Response(output) THEN <<"Ok">> ELSE <<"Err">>
    /\ pc' = "bound"
    /\ UNCHANGED <<impl, order, input, path_map, json_abs, paths, extracted_values,
                   output, base, reference>>

\* the parsing pipeline, composed as in the tests of parsing/mod.rs
Root == AbsolutePath_new(<<Slash>>)

MakeDepsPathMap ==
    /\ impl = "parsing"
    /\ pc = "start"
    /\ path_map' = make_deps_path_map(input, Root, EmptyMap, order)
    /\ pc' = "prepared"
    /\ UNCHANGED <<impl, order, input, json_abs, paths, extracted_values, output,
                   base, reference, resolved>>

ExpandAbsolutePaths ==
    /\ impl = "parsing"
    /\ pc = "prepared"
    /\ json_abs' = expand_absolute_paths(input, path_map, Root)
    /\ pc' = "converted"
    /\ UNCHANGED <<impl, order, input, path_map, paths, extracted_values, output,
                   base, reference, resolved>>

ExtractValuesByPaths ==
    /\ impl = "parsing"
    /\ pc = "converted"
    /\ paths' = FlatValues(path_map)
    /\ extracted_values' = extract_values_by_paths(json_abs, paths', Root, EmptyMap, order)
    /\ pc' = "extracted"
    /\ UNCHANGED <<impl, order, input, path_map, json_abs, output,
                   base, reference, resolved>>

SubstituteValues ==
    /\ impl = "parsing"
    /\ pc = "extracted"
    /\ output' = values_resolving_resolve_values(json_abs, extracted_values)
    /\ pc' = "done"
    /\ UNCHANGED <<impl, order, input, path_map, json_abs, paths, extracted_values,
                   base, reference, resolved>>

Next ==
    \/ PreparePathMap
    \/ ConvertToAbsolutePaths
    \/ ExtractValuesFromPaths
    \/ ResolveValues
    \/ ResolveJsonToObject
    \/ MakeDepsPathMap
    \/ ExpandAbsolutePaths
    \/ ExtractValuesByPaths
    \/ SubstituteValues

Spec == Init /\ [][Next]_vars

(***************************************************************************)
(* Path arithmetic on its own: resolve_with and resolve_reference_path     *)
(* applied to a base and a reference put together from path pieces.        *)
(***************************************************************************)
MaxBaseParts == 3
MaxRefParts == 4

BasePieces == { <<Slash>>, <<"a">>, <<"b">> }
RefPieces == { DotDot, <<Slash>>, <<"a">> }

RECURSIVE Concats(_, _)
Concats(pieces, parts) ==
    IF parts = 0 THEN {<<>>}
    ELSE LET shorter == Concats(pieces, parts - 1)
         IN  shorter \cup {text \o piece : text \in shorter, piece \in pieces}

InitPath ==
    /\ impl = "path"
    /\ order = "fwd"
    /\ input = Null
    /\ pc = "start"
    /\ path_map = EmptyMap
    /\ json_abs = Null
    /\ paths = {}
    /\ extracted_values = EmptyMap
    /\ output = Null
    /\ base \in Concats(BasePieces, MaxBaseParts)
    /\ reference \in Concats(RefPieces, MaxRefParts)
    /\ resolved = <<>>

\* base.resolve_with(&relative) on base = AbsolutePath::new(..)
ResolveWith ==
    /\ pc = "start"
    /\ resolved' = <<AbsolutePath_new(base), resolve_with(AbsolutePath_new(base), reference)>>
    /\ pc' = "resolve_with"
    /\ UNCHANGED <<impl, order, input, path_map, json_abs, paths, extracted_values,
                   output, base, reference>>

\* base_path.resolve_with(&relative_path) on the path of a member: base.append(key)
ResolveWithMember ==
    /\ pc = "start"
    /\ \E key \in {<<>>, <<"c">>} :
          LET self == append(AbsolutePath_new(base), key)
          IN  resolved' = <<self, resolve_with(self, reference)>>
    /\ pc' = "resolve_with"
    /\ UNCHANGED <<impl, order, input, path_map, json_abs, paths, extracted_values,
                   output, base, reference>>

ResolveReferencePath ==
    /\ pc = "start"
    /\ resolved' = <<base, resolve_reference_path(base, reference)>>
    /\ pc' = "resolve_reference_path"
    /\ UNCHANGED <<impl, order, input, path_map, json_abs, paths, extracted_values,
                   output, base, reference>>

\* AbsolutePath::new(text)
AbsolutePathNew ==
    /\ pc = "start"
    /\ resolved' = <<AbsolutePath_new(reference)>>
    /\ pc' = "new"
    /\ UNCHANGED <<impl, order, input, path_map, json_abs, paths, extracted_values,
                   output, base, reference>>

\* base.append(key) on base = AbsolutePath::new(..), the key any text
AppendKey ==
    /\ pc = "start"
    /\ resolved' = <<append(AbsolutePath_new(base), reference)>>
    /\ pc' = "append"
    /\ UNCHANGED <<impl, order, input, path_map, json_abs, paths, extracted_values,
                   output, base, reference>>

NextPath ==
    \/ ResolveWith
    \/ ResolveWithMember
    \/ ResolveReferencePath
    \/ AbsolutePathNew
    \/ AppendKey

SpecPath == InitPath /\ [][NextPath]_vars

(***************************************************************************)
(* Reference semantics of the specification, used to state the properties: *)
(* locations, the path of a location, the node a path designates, the      *)
(* placeholders of a text.                                                 *)
(***************************************************************************)
IsContainer(value) == value.t \in {"obj", "arr"}

\* the locations of the leaves of a value: sequences of member positions
RECURSIVE LeafLocs(_)
LeafLocs(value) ==
    IF IsContainer(value)
    THEN UNION {{<<i>> \o loc : loc \in LeafLocs(value.kids[i][2])} :
                    i \in 1..Len(value.kids)}
    ELSE {<<>>}

RECURSIVE At(_, _)
At(value, loc) == IF loc = <<>> THEN value ELSE At(value.kids[Head(loc)][2], Tail(loc))

StringLocs(value) == {loc \in LeafLocs(value) : At(value, loc).t = "str"}

\* the locations of all the nodes of a value, the value itself and containers included
RECURSIVE AllLocs(_)
AllLocs(value) ==
    {<<>>} \cup
    (IF IsContainer(value)
     THEN UNION {{<<i>> \o loc : loc \in AllLocs(value.kids[i][2])} :
                     i \in 1..Len(value.kids)}
     ELSE {})

\* the key or the index, in decimal, of the member at position i
SegAt(value, i) == IF value.t = "obj" THEN value.kids[i][1] ELSE to_string(i - 1)

\* the AbsolutePath the walks of parsing/ give the node at a location: append of
\* each key or index from the root
RECURSIVE PathFrom(_, _, _)
PathFrom(value, loc, current_path) ==
    IF loc = <<>> THEN current_path
    ELSE PathFrom(value.kids[Head(loc)][2], Tail(loc),
                  append(current_path, SegAt(value, Head(loc))))

PathOf(doc, loc) == PathFrom(doc, loc, Root)

\* the path extract_values_from_paths of lib.rs gives the node at a location
RECURSIVE LibPathFrom(_, _, _)
LibPathFrom(value, loc, current_path) ==
    IF loc = <<>> THEN current_path
    ELSE LibPathFrom(value.kids[Head(loc)][2], Tail(loc),
                     current_path \o <<Slash>> \o SegAt(value, Head(loc)))

LibPathOf(doc, loc) == LibPathFrom(doc, loc, <<>>)

\* the segments of the absolute path of a location: object keys, array indices in decimal
RECURSIVE SegsOf(_, _)
SegsOf(value, loc) ==
    IF loc = <<>> THEN <<>>
    ELSE <<IF value.t = "obj" THEN value.kids[Head(loc)][1] ELSE to_string(Head(loc) - 1)>>
         \o SegsOf(value.kids[Head(loc)][2], Tail(loc))

\* the node a sequence of segments designates: <<node>>, or <<>> when there is none
RECURSIVE NodeAt(_, _)
NodeAt(value, segs) ==
    IF segs = <<>> THEN <<value>>
    ELSE IF ~IsContainer(value) THEN <<>>
    ELSE LET hits == {i \in 1..Len(value.kids) :
                         IF value.t = "obj" THEN value.kids[i][1] = Head(segs)
                         ELSE to_string(i - 1) = Head(segs)}
         IN  IF hits = {} THEN <<>>
             ELSE NodeAt(value.kids[CHOOSE i \in hits : TRUE][2], Tail(segs))

\* a path printed from its segments: a single leading slash, segments joined by slashes
RECURSIVE PrintSegs(_)
PrintSegs(segs) ==
    IF segs = <<>> THEN <<>>
    ELSE IF Len(segs) = 1 THEN segs[1]
    ELSE segs[1] \o <<Slash>> \o PrintSegs(Tail(segs))

PrintPath(segs) == <<Slash>> \o PrintSegs(segs)

\* the segments of a text: its maximal slash-free pieces, empty pieces included
RECURSIVE Pieces(_, _)
Pieces(text, piece) ==
    IF text = <<>> THEN <<piece>>
    ELSE IF Head(text) = Slash THEN <<piece>> \o Pieces(Tail(text), <<>>)
    ELSE Pieces(Tail(text), Append(piece, Head(text)))

\* relative resolution of the specification: drop the last segment of the base, then
\* `..` pops, an empty segment is ignored, any other segment is pushed
RECURSIVE Walk(_, _)
Walk(segs, pieces) ==
    IF pieces = <<>> THEN segs
    ELSE Walk(IF Head(pieces) = DotDot
              THEN (IF segs = <<>> THEN <<>> ELSE SubSeq(segs, 1, Len(segs) - 1))
              ELSE IF Head(pieces) = <<>> THEN segs
              ELSE segs \o <<Head(pieces)>>,
              Tail(pieces))

RelativeTarget(baseSegs, ref) ==
    Walk(IF baseSegs = <<>> THEN <<>> ELSE SubSeq(baseSegs, 1, Len(baseSegs) - 1),
         Pieces(ref, <<>>))

\* the segments a reference written in the leaf at leafSegs designates
TargetSegs(leafSegs, ref) ==
    IF StartsWith(ref, Slash) THEN Walk(<<>>, Pieces(ref, <<>>))
    ELSE RelativeTarget(leafSegs, ref)

\* the scanner of the specification: the reference texts of the placeholders of a
\* text, left to right, and the pieces of text between and around them
RECURSIVE Scan(_)
Scan(text) ==
    LET open == Find(text, 1, Open)
        close == Find(text, open, Close)
    IN  IF open = 0 \/ close = 0 THEN [refs |-> <<>>, gaps |-> <<text>>]
        ELSE LET rest == Scan(SubSeq(text, close + 1, Len(text)))
             IN  [refs |-> <<SubSeq(text, open + 1, close - 1)>> \o rest.refs,
                  gaps |-> <<SubSeq(text, 1, open - 1)>> \o rest.gaps]

IsWhole(text) ==
    /\ Len(Scan(text).refs) = 1
    /\ Scan(text).gaps = << <<>>, <<>> >>

HasPlaceholder(text) == Scan(text).refs # <<>>

Done(which) == impl = which /\ pc = "done"

(***************************************************************************)
(* The substituter and the flattening on their own: resolve_values,        *)
(* resolve_recursive and resolve_embedded_refs applied to a template and a *)
(* table given by the caller, collect_all_absolute_paths applied to a      *)
(* source document.                                                        *)
(***************************************************************************)
MaxTemplateParts == 2

\* plain text, stray braces, placeholders with an absolute, relative and
\* non-canonical reference to /s, and references to /n, /u, /m and /t
TemplateFragments ==
    { <<"x">>, <<Open>>, <<Close>>,
      <<Open, "/", "s", Close>>, <<Open, "s", Close>>, <<Open, "/", "s", "/", Close>>,
      <<Open, "/", "n", Close>>, <<Open, "/", "u", Close>>,
      <<Open, "/", "m", Close>>, <<Open, "/", "t", Close>> }

RECURSIVE TemplateTextsOf(_)
TemplateTextsOf(parts) ==
    IF parts = 0 THEN {<<>>}
    ELSE LET shorter == TemplateTextsOf(parts - 1)
         IN  shorter \cup {text \o fragment : text \in shorter,
                                               fragment \in TemplateFragments}

\* {"a": text, "k": [text, number, null, true]}
TemplateDoc(text) ==
    Obj(<< <<<<"a">>, Str(text)>>,
           <<<<"k">>, Arr(<<Str(text), Num(MaxNum), Null, Bool(TRUE)>>)>> >>)

Templates == {TemplateDoc(text) : text \in TemplateTextsOf(MaxTemplateParts)}

\* what the table holds at /s: nothing, or a value of one of the types
SOptions ==
    { <<>>, <<Str(<<"v">>)>>, <<Str(<<>>)>>, <<Num(0)>>, <<Null>>,
      <<Obj(<< <<<<"c">>, Str(<<"v">>)>> >>)>> }

\* /n is a number, /u an array, /t a string that holds a placeholder; /m is absent
BaseTable ==
    [key \in { <<Slash, "n">>, <<Slash, "u">>, <<Slash, "t">> } |->
        CASE key = <<Slash, "n">> -> Num(MaxNum)
          [] key = <<Slash, "u">> -> Arr(<<Str(<<"w">>)>>)
          [] OTHER -> Str(<<Open, Slash, "s", Close>>)]

\* keys that hold a brace: the text between the first and the last byte of
\* `{/s}{/s}`, of `{/s}}` and of `{{/s}`
OddTable ==
    [key \in { <<Slash, "s", Close, Open, Slash, "s">>, <<Slash, "s", Close>>,
               <<Slash, Open, Slash, "s">> } |->
        CASE key = <<Slash, "s", Close, Open, Slash, "s">> -> Num(MaxNum)
          [] key = <<Slash, "s", Close>> -> Str(<<"w">>)
          [] OTHER -> Str(<<"q">>)]

Merge(map1, map2) ==
    [key \in (DOMAIN map1) \cup (DOMAIN map2) |->
        IF key \in DOMAIN map2 THEN map2[key] ELSE map1[key]]

TableOf(sOption, odd) ==
    LET table == IF odd THEN Merge(BaseTable, OddTable) ELSE BaseTable
    IN  IF sOption = <<>> THEN table ELSE Insert(table, <<Slash, "s">>, sOption[1])

Tables == {TableOf(sOption, odd) : sOption \in SOptions, odd \in BOOLEAN}

\* {"e": {}, "f": [], "o": {"u": ["w", {}, number]}, "s": "v"}
NestedDoc ==
    Obj(<< <<<<"e">>, Obj(<<>>)>>, <<<<"f">>, Arr(<<>>)>>,
           <<<<"o">>, Obj(<< <<<<"u">>,
                               Arr(<<Str(<<"w">>), Obj(<<>>), Num(MaxNum)>>)>> >>)>>,
           <<<<"s">>, Str(<<"v">>)>> >>)

\* source documents: scalars and empty containers as the whole document, nested
\* and empty containers inside, members whose paths are equal
Sources ==
    { Num(MaxNum), Str(<<"v">>), Null, Obj(<<>>), Arr(<<>>), NestedDoc,
      ArrayDoc(<<"x">>, MaxNum), TwinDoc(<<"x">>, <<"x">>),
      CollideDoc(<<"x">>, <<"y">>, <<"v">>) }

InitSubstituter ==
    /\ impl = "substituter"
    /\ \/ input \in Templates /\ extracted_values \in Tables /\ order = "fwd"
       \/ input \in Sources /\ extracted_values = BaseTable /\ order \in {"fwd", "rev"}
    /\ pc = "start"
    /\ path_map = EmptyMap
    /\ json_abs = Null
    /\ paths = {}
    /\ output = Null
    /\ base = <<>>
    /\ reference = <<>>
    /\ resolved = <<>>

\* resolve_values(&json, &context)
SubstituterResolveValues ==
    /\ pc = "start"
    /\ output' = values_resolving_resolve_values(input, extracted_values)
    /\ pc' = "resolve_values"
    /\ UNCHANGED <<impl, order, input, path_map, json_abs, paths, extracted_values,
                   base, reference, resolved>>

\* resolve_recursive(&template, &source_map)
ResolveRecursive ==
    /\ pc = "start"
    /\ output' = resolve_recursive(input, extracted_values)
    /\ pc' = "resolve_recursive"
    /\ UNCHANGED <<impl, order, input, path_map, json_abs, paths, extracted_values,
                   base, reference, resolved>>

\* resolve_embedded_refs(text, &source_map) on the text of a string leaf
ResolveEmbeddedRefs ==
    /\ pc = "start"
    /\ \E loc \in StringLocs(input) :
          /\ reference' = At(input, loc).s
          /\ output' = resolve_embedded_refs(At(input, loc).s, extracted_values)
    /\ pc' = "resolve_embedded_refs"
    /\ UNCHANGED <<impl, order, input, path_map, json_abs, paths, extracted_values,
                   base, resolved>>

\* collect_all_absolute_paths(&source, &AbsolutePath::new("/"), &mut source_map)
CollectAllAbsolutePaths ==
    /\ pc = "start"
    /\ path_map' = collect_all_absolute_paths(input, Root, EmptyMap, order)
    /\ pc' = "collect_all_absolute_paths"
    /\ UNCHANGED <<impl, order, input, json_abs, paths, extracted_values, output,
                   base, reference, resolved>>

NextSubstituter ==
    \/ SubstituterResolveValues
    \/ ResolveRecursive
    \/ ResolveEmbeddedRefs
    \/ CollectAllAbsolutePaths

SpecSubstituter == InitSubstituter /\ [][NextSubstituter]_vars

(***************************************************************************)
(* Properties                                                              *)
(***************************************************************************)

\* C1: type preservation end to end.  When resolve_json has returned, every string
\* leaf of the input that is exactly one placeholder `{/p}` whose path designates
\* a number leaf holds, in the output, that number itself (not its decimal text).
C1_TypePreservation ==
    Done("lib") =>
        \A loc \in StringLocs(input) :
            LET text == At(input, loc).s
                ref == Scan(text).refs[1]
                node == NodeAt(input, TargetSegs(SegsOf(input, loc), ref))
            IN  (IsWhole(text) /\ StartsWith(ref, Slash)
                    /\ node # <<>> /\ node[1].t = "num")
                => At(output, loc) = node[1]

\* C2: scoped relative resolution.  Two string leaves at different locations that
\* hold the same single relative placeholder are each rewritten to the path
\* resolved against their own location, and each receives its own target's value.
C2_ScopedRelativeResolution ==
    Done("lib") =>
        \A loc1 \in StringLocs(input) : \A loc2 \in StringLocs(input) :
            LET text == At(input, loc1).s
                ref == Scan(text).refs[1]
                segs == TargetSegs(SegsOf(input, loc1), ref)
                node == NodeAt(input, segs)
            IN  (loc1 # loc2 /\ At(input, loc2).s = text
                    /\ IsWhole(text) /\ HasPrefix(ref, DotDot \o <<Slash>>))
                => /\ At(json_abs, loc1).s = <<Open>> \o PrintPath(segs) \o <<Close>>
                   /\ (node # <<>> /\ node[1].t = "str" /\ ~HasPlaceholder(node[1].s))
                        => At(output, loc1) = node[1]

\* the text a scalar target is rendered as inside a longer string
Render(node) == IF node.t = "num" THEN to_string(node.n) ELSE node.s

\* gaps[1] \o texts[1] \o gaps[2] \o ... \o texts[n] \o gaps[n + 1]
RECURSIVE Fill(_, _)
Fill(gaps, texts) ==
    IF texts = <<>> THEN gaps[1]
    ELSE gaps[1] \o texts[1] \o Fill(Tail(gaps), Tail(texts))

\* the nodes of the document from that the placeholders of the string leaf of doc
\* at loc designate
TargetsIn(doc, from, loc) ==
    LET refs == Scan(At(doc, loc).s).refs
    IN  [i \in 1..Len(refs) |-> NodeAt(from, TargetSegs(SegsOf(doc, loc), refs[i]))]

Targets(doc, loc) == TargetsIn(doc, doc, loc)

\* C3: string rendering of embedded placeholders.  When resolve_json has returned,
\* every string leaf that holds placeholders inside a longer string, all of them
\* designating string or number leaves, is the string obtained by replacing each
\* placeholder by its target's text (a number in decimal).
C3_EmbeddedRendering ==
    Done("lib") =>
        \A loc \in StringLocs(input) :
            LET text == At(input, loc).s
                targets == TargetsIn(input, json_abs, loc)
            IN  (/\ HasPlaceholder(text)
                 /\ ~IsWhole(text)
                 /\ \A i \in 1..Len(targets) :
                        targets[i] # <<>> /\ targets[i][1].t \in {"str", "num"})
                => At(output, loc) =
                       Str(Fill(Scan(text).gaps,
                                [i \in 1..Len(targets) |-> Render(targets[i][1])]))

AllUnresolvable(doc) ==
    \A loc \in StringLocs(doc) :
        \A i \in 1..Len(Scan(At(doc, loc).s).refs) : Targets(doc, loc)[i] = <<>>

\* C4: unresolvable placeholders are preserved verbatim.  A document all of whose
\* placeholders (absolute or relative) designate no node resolves to a value-equal
\* document, and no error is signalled on the way.
C4_UnresolvablePreserved ==
    (impl = "lib" /\ AllUnresolvable(input)) =>
        /\ pc \notin {"panic", "diverged"}
        /\ pc = "done" => output = input

\* no `{` with a `}` somewhere after it
NoPair(text) ==
    ~\E i \in 1..Len(text) : \E j \in (i + 1)..Len(text) :
        text[i] = Open /\ text[j] = Close

PlaceholderFree(doc) == \A loc \in StringLocs(doc) : NoPair(At(doc, loc).s)

\* C5: no-op on placeholder-free input.  For a document none of whose string leaves
\* holds a `{` followed later by a `}`, resolve_json returns a value-equal document.
C5_NoOpOnPlaceholderFree ==
    (impl = "lib" /\ PlaceholderFree(input)) =>
        /\ pc \notin {"panic", "diverged"}
        /\ pc = "done" => output = input

\* C5 witness: resolve_json has returned on a placeholder-free document that does
\* hold braces in a string leaf
C5_Witness ==
    /\ Done("lib")
    /\ PlaceholderFree(input)
    /\ \E loc \in StringLocs(input) :
           Find(At(input, loc).s, 1, Open) # 0 /\ Find(At(input, loc).s, 1, Close) # 0
    /\ output = input

\* C6: resolve_json terminates on every input.  The rewriting loop of
\* convert_to_absolute_paths never returns to a scan state it has already been in.
C6_Terminates == impl = "lib" => pc # "diverged"

ParentIsArray(doc, loc) ==
    loc # <<>> /\ At(doc, SubSeq(loc, 1, Len(loc) - 1)).t = "arr"

\* C8: array index addressing is uniform.  A relative reference written in element
\* i of the array at P is resolved with base P/i, and an absolute reference P/i
\* designates element i.
C8_ArrayIndexAddressing ==
    Done("lib") =>
        \A loc \in StringLocs(input) :
            LET text == At(input, loc).s
                ref == Scan(text).refs[1]
                segs == TargetSegs(SegsOf(input, loc), ref)
            IN  (ParentIsArray(input, loc) /\ IsWhole(text) /\ ~StartsWith(ref, Slash))
                => At(json_abs, loc).s = <<Open>> \o PrintPath(segs) \o <<Close>>

\* the non-empty segments of a path text
SegsOfText(text) == SelectSeq(Pieces(text, <<>>), NonEmpty)

DropLast(segs) == IF segs = <<>> THEN <<>> ELSE SubSeq(segs, 1, Len(segs) - 1)

IsName(text) == text # <<>> /\ text # DotDot /\ Find(text, 1, Slash) = 0

\* C7: relative resolution is sibling-relative.  resolve_with and
\* resolve_reference_path return the path printed from: the non-empty segments of
\* the base without the last one, walked by the segments of the reference (`..`
\* pops, an empty segment is ignored, any other is pushed).  So a bare name is a
\* sibling of the referencing leaf and `../name` a sibling of the leaf's parent.
C7_SiblingRelative ==
    pc \in {"resolve_with", "resolve_reference_path"} =>
        LET segs == SegsOfText(resolved[1])
            result == resolved[2]
        IN  /\ result = PrintPath(RelativeTarget(segs, reference))
            /\ IsName(reference) => result = PrintPath(DropLast(segs) \o <<reference>>)
            /\ (HasPrefix(reference, DotDot \o <<Slash>>)
                    /\ IsName(SubSeq(reference, 4, Len(reference))))
                => result = PrintPath(DropLast(DropLast(segs))
                                          \o <<SubSeq(reference, 4, Len(reference))>>)

\* C7 witness: `../a` resolved by resolve_with against a leaf two levels deep
C7_Witness ==
    /\ pc = "resolve_with"
    /\ resolved[1] = <<Slash, "b", Slash, "b", Slash, "c">>
    /\ reference = DotDot \o <<Slash, "a">>
    /\ resolved[2] = <<Slash, "b", Slash, "a">>

\* one pass over a text: each placeholder found by the scanner of the specification
\* is replaced by sub(reference), and nothing that was inserted is looked at again
OnePass(text, Sub(_)) ==
    LET scan == Scan(text)
    IN  Fill(scan.gaps, [i \in 1..Len(scan.refs) |-> Sub(scan.refs[i])])

Placeholder(ref) == <<Open>> \o ref \o <<Close>>

\* C9: no transitive resolution.  The table of extracted values holds the values
\* of the rewritten document as they are before substitution, and every string
\* leaf of the result is obtained from the rewritten leaf in one pass: a
\* placeholder is replaced by the table's value and the inserted text, placeholders
\* included, is never scanned again.
C9_NoTransitiveResolution ==
    /\ Done("lib") =>
          /\ \A key \in DOMAIN extracted_values :
                \E loc \in LeafLocs(json_abs) :
                    /\ LibPathOf(json_abs, loc) = key
                    /\ At(json_abs, loc).t \in {"str", "num"}
                    /\ extracted_values[key] = Render(At(json_abs, loc))
          /\ \A loc \in StringLocs(json_abs) :
                LET Sub(ref) == IF ref \in DOMAIN extracted_values
                                THEN extracted_values[ref] ELSE Placeholder(ref)
                IN  At(output, loc) = Str(OnePass(At(json_abs, loc).s, Sub))
    /\ Done("parsing") =>
          /\ \A key \in DOMAIN extracted_values :
                \E loc \in AllLocs(json_abs) :
                    /\ PathOf(json_abs, loc) = key
                    /\ extracted_values[key] = At(json_abs, loc)
          /\ \A loc \in StringLocs(json_abs) :
                LET text == At(json_abs, loc).s
                    Key(ref) == AbsolutePath_new(ref)
                    Sub(ref) == IF /\ StartsWith(ref, Slash)
                                   /\ Key(ref) \in DOMAIN extracted_values
                                   /\ extracted_values[Key(ref)].t = "str"
                                THEN extracted_values[Key(ref)].s ELSE Placeholder(ref)
                IN  IF /\ IsWhole(text)
                       /\ Scan(text).refs[1] # <<>>
                       /\ Key(Scan(text).refs[1]) \in DOMAIN extracted_values
                    THEN At(output, loc) = extracted_values[Key(Scan(text).refs[1])]
                    ELSE At(output, loc) = Str(OnePass(text, Sub))

\* C9 witness: a leaf received the text of a target that itself holds a placeholder,
\* and the result still holds that placeholder
C9_Witness ==
    /\ pc = "done"
    /\ \E loc \in StringLocs(json_abs) :
          LET refs == Scan(At(json_abs, loc).s).refs
          IN  /\ refs # <<>>
              /\ LET node == NodeAt(json_abs, SegsOfText(refs[1]))
                 IN  /\ node # <<>>
                     /\ node[1].t = "str"
                     /\ HasPlaceholder(node[1].s)
                     /\ At(output, loc).t = "str"
                     /\ HasSuffix(At(output, loc).s, node[1].s)

\* the position of the first `{` that has no `}` after it, 0 when there is none
StrayPos(text) ==
    LET strays == {i \in 1..Len(text) : text[i] = Open /\ Find(text, i, Close) = 0}
    IN  IF strays = {} THEN 0 ELSE CHOOSE i \in strays : \A j \in strays : i <= j

BeforeStray(text) == SubSeq(text, 1, StrayPos(text) - 1)
FromStray(text) == SubSeq(text, StrayPos(text), Len(text))

\* C10: hard truncation on an unterminated placeholder.  In every scanning stage a
\* leaf with a `{` that has no `}` after it is processed as the text before that
\* `{` would be on its own, followed by the text from that `{` on, unchanged; a
\* leaf with no complete placeholder at all comes out as it went in.
C10_HardTruncation ==
    \A loc \in StringLocs(input) :
        LET text == At(input, loc).s
            head == BeforeStray(text)
            tail == FromStray(text)
            leafPath == PathOf(input, loc)
        IN  StrayPos(text) # 0 =>
              /\ PrepareText(text, 1, leafPath, EmptyMap)
                    = PrepareText(head, 1, leafPath, EmptyMap)
              /\ DepsText(text, 1, leafPath, EmptyMap)
                    = DepsText(head, 1, leafPath, EmptyMap)
              /\ (impl = "lib" /\ pc \in {"converted", "extracted", "done"}) =>
                    /\ At(json_abs, loc).s = ConvertText(head, 1, path_map, {}).text \o tail
                    /\ NoPair(text) => At(json_abs, loc).s = text
              /\ (impl = "parsing" /\ pc \in {"converted", "extracted", "done"}) =>
                    /\ At(json_abs, loc).s = ExpandText(head, 1, path_map, leafPath) \o tail
                    /\ NoPair(text) => At(json_abs, loc).s = text
              /\ Done("lib") =>
                    /\ At(output, loc) =
                          Str(ResolveText(BeforeStray(At(json_abs, loc).s), 1,
                                          extracted_values) \o tail)
                    /\ NoPair(text) => At(output, loc) = Str(text)
              /\ Done("parsing") =>
                    /\ At(output, loc) =
                          Str(EmbeddedText(BeforeStray(At(json_abs, loc).s), 1,
                                           extracted_values) \o tail)
                    /\ NoPair(text) => At(output, loc) = Str(text)

\* C10 witness: a complete placeholder before an unterminated one was substituted
\* and the unterminated rest was kept
C10_Witness ==
    /\ pc = "done"
    /\ \E loc \in StringLocs(input) :
          LET text == At(input, loc).s
          IN  /\ StrayPos(text) # 0
              /\ HasPlaceholder(text)
              /\ At(output, loc).t = "str"
              /\ At(output, loc).s = <<"v">> \o FromStray(text)

\* C12: binding a resolved number reference to a string field succeeds.  When the
\* leaf profile/age is exactly `{/details/age}` and /details/age is a number, the
\* leaf resolve_json hands to the binding step is the string of the number's
\* decimal text, and resolve_json_to_object returns Ok for a record that declares
\* `age` (and `bio`) as strings.
C12_BindingNumberToString ==
    (impl = "lib" /\ pc = "bound") =>
        \A loc \in StringLocs(input) :
            LET node == NodeAt(input, <<Details, Age>>)
            IN  (/\ SegsOf(input, loc) = <<Profile, Age>>
                 /\ At(input, loc).s = <<Open, Slash>> \o Details \o <<Slash>> \o Age
                                           \o <<Close>>
                 /\ node # <<>> /\ node[1].t = "num")
                => /\ At(output, loc) = Str(to_string(node[1].n))
                   /\ resolved = <<"Ok">>

\* C12 witness: the binding returned Ok on the document of custom_struct_example,
\* whose leaf profile/age came out as a string of digits
C12_Witness ==
    /\ impl = "lib"
    /\ pc = "bound"
    /\ input = ProfileDoc(MaxNum)
    /\ Member(Member(output, Profile)[1], Age)[1] = Str(to_string(MaxNum))
    /\ resolved = <<"Ok">>

\* the table's entry a reference text designates: <<value>>, or <<>> when the text
\* is not an absolute path or the table has no entry at it
Lookup(table, ref) ==
    IF StartsWith(ref, Slash) /\ AbsolutePath_new(ref) \in DOMAIN table
    THEN <<table[AbsolutePath_new(ref)]>>
    ELSE <<>>

\* C11: whole-string policy of the substituter.  After resolve_values, every
\* string leaf of the template that is exactly one placeholder `{path}` whose path
\* is a key of the table holds the table's value itself, with its type.
C11_WholeStringPolicy ==
    pc = "resolve_values" =>
        \A loc \in StringLocs(input) :
            LET text == At(input, loc).s
                hit == Lookup(extracted_values, Scan(text).refs[1])
            IN  (IsWhole(text) /\ hit # <<>>) => At(output, loc) = hit[1]

\* C11 witness: whole-string references to a number, to an array and, written with
\* a trailing slash, to an object were replaced by the number, the array, the object
C11_Witness ==
    /\ pc = "resolve_values"
    /\ \/ /\ input = TemplateDoc(<<Open, Slash, "n", Close>>)
          /\ At(output, <<1>>) = Num(MaxNum)
       \/ /\ input = TemplateDoc(<<Open, Slash, "u", Close>>)
          /\ At(output, <<2, 1>>).t = "arr"
       \/ /\ input = TemplateDoc(<<Open, Slash, "s", Slash, Close>>)
          /\ At(output, <<1>>).t = "obj"

\* C13: embedded-number policy of the substituter.  resolve_embedded_refs replaces
\* every placeholder of a text whose placeholders all designate strings or numbers
\* of the table by the target's text, a number in decimal.
C13_EmbeddedNumberRendering ==
    pc = "resolve_embedded_refs" =>
        LET scan == Scan(reference)
            hits == [i \in 1..Len(scan.refs) |-> Lookup(extracted_values, scan.refs[i])]
        IN  (/\ scan.refs # <<>>
             /\ \A i \in 1..Len(hits) : hits[i] # <<>> /\ hits[i][1].t \in {"str", "num"})
            => output = Str(Fill(scan.gaps, [i \in 1..Len(hits) |-> Render(hits[i][1])]))

\* C14: cross-document flattening is complete.  collect_all_absolute_paths started
\* at the root yields a map whose keys are exactly the paths of the nodes of the
\* source (the root and empty containers included), each holding its node.
C14_FlatteningComplete ==
    pc = "collect_all_absolute_paths" =>
        /\ DOMAIN path_map = {PathOf(input, loc) : loc \in AllLocs(input)}
        /\ \A loc \in AllLocs(input) :
              /\ PathOf(input, loc) \in DOMAIN path_map
              /\ path_map[PathOf(input, loc)] = At(input, loc)

\* the texts a placeholder may come out as: itself when its reference is not an
\* absolute path of the table or designates an array or an object, the target's text
\* when it designates a string; for a number, a boolean or null, itself or the
\* target's text (the policy for those is the matter of C13)
Allowed(table, ref) ==
    LET hit == Lookup(table, ref)
    IN  IF hit = <<>> \/ hit[1].t \in {"arr", "obj"} THEN {Placeholder(ref)}
        ELSE IF hit[1].t = "str" THEN {hit[1].s}
        ELSE IF hit[1].t = "num" THEN {Placeholder(ref), to_string(hit[1].n)}
        ELSE IF hit[1].t = "bool"
        THEN {Placeholder(ref), <<"t", "r", "u", "e">>, <<"f", "a", "l", "s", "e">>}
        ELSE {Placeholder(ref), <<"n", "u", "l", "l">>}

RECURSIVE Fillings(_, _, _)
Fillings(table, gaps, refs) ==
    IF refs = <<>> THEN {gaps[1]}
    ELSE {gaps[1] \o sub \o rest :
              sub \in Allowed(table, refs[1]),
              rest \in Fillings(table, Tail(gaps), Tail(refs))}

\* C19: per-placeholder fallback.  resolve_embedded_refs leaves a placeholder whose
\* path is absent from the table or designates an array or an object as it is
\* written, and goes on: the text between placeholders is kept and every later
\* placeholder that designates a string is replaced by it.
C19_PerPlaceholderFallback ==
    pc = "resolve_embedded_refs" =>
        /\ output.t = "str"
        /\ output.s \in Fillings(extracted_values, Scan(reference).gaps,
                                 Scan(reference).refs)

\* C19 witness: a placeholder that designates an array, or nothing, was kept and the
\* placeholder after it was substituted
C19_Witness ==
    /\ pc = "resolve_embedded_refs"
    /\ Lookup(extracted_values, <<Slash, "s">>) = <<Str(<<"v">>)>>
    /\ \/ /\ reference = <<Open, Slash, "u", Close, Open, Slash, "s", Close>>
          /\ output = Str(<<Open, Slash, "u", Close, "v">>)
       \/ /\ reference = <<Open, Slash, "m", Close, Open, Slash, "s", Close>>
          /\ output = Str(<<Open, Slash, "m", Close, "v">>)

\* C20: whole-string detection agrees with the scanner.  After resolve_values and
\* after resolve_recursive, a string leaf that starts with `{` and ends with `}` but
\* is not one placeholder spanning the whole string (its first `}` comes earlier) is
\* resolved placeholder by placeholder and is a string, whatever the table holds.
C20_WholeStringAgreesWithScanner ==
    pc \in {"resolve_values", "resolve_recursive"} =>
        \A loc \in StringLocs(input) :
            LET text == At(input, loc).s
            IN  (StartsWith(text, Open) /\ EndsWith(text, Close) /\ ~IsWhole(text))
                => /\ At(output, loc).t = "str"
                   /\ At(output, loc) = resolve_embedded_refs(text, extracted_values)

\* the absolute path a reference written in the leaf at leafPath is collected as
Collected(leafPath, ref) ==
    IF StartsWith(ref, Slash) THEN AbsolutePath_new(ref) ELSE resolve_with(leafPath, ref)

Range(seq) == {seq[i] : i \in 1..Len(seq)}

\* C15: dependency collection is exact.  The map of make_deps_path_map has exactly
\* the paths of the string leaves that hold a complete placeholder as keys; the
\* inner map of such a leaf has exactly the reference texts of the leaf as keys,
\* an absolute one mapped to itself normalised and any other to resolve_with of the
\* leaf's path; numbers, booleans, nulls and placeholder-free strings give no entry.
C15_DependencyCollectionExact ==
    (impl = "parsing" /\ pc # "start") =>
        LET leaves == {loc \in StringLocs(input) : HasPlaceholder(At(input, loc).s)}
        IN  /\ DOMAIN path_map = {PathOf(input, loc) : loc \in leaves}
            /\ \A loc \in leaves :
                  LET leafPath == PathOf(input, loc)
                      dependencies == path_map[leafPath]
                  IN  /\ DOMAIN dependencies = Range(Scan(At(input, loc).s).refs)
                      /\ \A ref \in DOMAIN dependencies :
                            dependencies[ref] = Collected(leafPath, ref)

\* C16: the dependency map is scoped by leaf.  After expand_absolute_paths every
\* string leaf is its input text with each placeholder rewritten to the path its
\* reference resolves to against that leaf's own location, whatever the other
\* leaves hold: the same reference text in two leaves is rewritten in each to its
\* own path, and no entry of another leaf changes the rewriting.
C16_LeafScopedRewriting ==
    (impl = "parsing" /\ pc \in {"converted", "extracted", "done"}) =>
        \A loc \in StringLocs(input) :
            LET Sub(ref) == Placeholder(Collected(PathOf(input, loc), ref))
            IN  At(json_abs, loc) = Str(OnePass(At(input, loc).s, Sub))

\* canonical form of an absolute path: one leading slash, no empty segment, no
\* trailing slash; the root is `/`
IsCanonical(path) == path = PrintPath(SegsOfText(path))

\* C17: postcondition of the expander.  In the output of expand_absolute_paths every
\* complete placeholder of every string leaf has a reference that begins with `/`
\* and is a canonical absolute path, and the text outside placeholders is that of
\* the input.
C17_ExpanderPostcondition ==
    (impl = "parsing" /\ pc \in {"converted", "extracted", "done"}) =>
        \A loc \in StringLocs(input) :
            LET before == Scan(At(input, loc).s)
                after == Scan(At(json_abs, loc).s)
            IN  /\ \A i \in 1..Len(after.refs) :
                      StartsWith(after.refs[i], Slash) /\ IsCanonical(after.refs[i])
                /\ after.gaps = before.gaps

\* C18: target extraction is exact.  The table of extract_values_by_paths has
\* exactly the requested paths that are the path of a node of the document as keys,
\* and every node at a requested path is the value the table holds at that path
\* (a container whole); there is no other entry.
C18_TargetExtractionExact ==
    (impl = "parsing" /\ pc \in {"extracted", "done"}) =>
        /\ DOMAIN extracted_values =
              {path \in paths : \E loc \in AllLocs(json_abs) : PathOf(json_abs, loc) = path}
        /\ \A loc \in AllLocs(json_abs) :
              PathOf(json_abs, loc) \in paths
                  => extracted_values[PathOf(json_abs, loc)] = At(json_abs, loc)

\* C21: the cross-document resolver and the substituter are the same function.  For
\* every template and every table, what resolve_values returned is what
\* resolve_recursive returns on the same arguments, and the other way round.
C21_ResolversAgree ==
    /\ pc = "resolve_values" => output = resolve_recursive(input, extracted_values)
    /\ pc = "resolve_recursive" =>
          output = values_resolving_resolve_values(input, extracted_values)

\* C21 witness: resolve_recursive replaced a whole-string reference by an array and
\* an embedded reference by a string, and left a reference to a missing path
C21_Witness ==
    /\ pc = "resolve_recursive"
    /\ Lookup(extracted_values, <<Slash, "s">>) = <<Str(<<"v">>)>>
    /\ \/ /\ input = TemplateDoc(<<Open, Slash, "u", Close>>)
          /\ At(output, <<1>>) = extracted_values[<<Slash, "u">>]
       \/ /\ input = TemplateDoc(<<"x", Open, Slash, "s", Close>>)
          /\ At(output, <<1>>) = Str(<<"x", "v">>)
       \/ /\ input = TemplateDoc(<<Open, Slash, "m", Close, Open, Slash, "s", Close>>)
          /\ At(output, <<2, 1>>) = Str(<<Open, Slash, "m", Close, "v">>)

\* C22: AbsolutePath well-formedness.  Every path produced by AbsolutePath::new, by
\* append and by resolve_with, whatever the argument (an empty key, a key that
\* holds `/`, a text with doubled slashes), begins with exactly one `/`, has no
\* empty segment and no trailing slash; the root is `/`.
C22_WellFormedPaths ==
    pc \in {"new", "append", "resolve_with"} =>
        \A i \in 1..Len(resolved) : IsCanonical(resolved[i])

\* C23: paths identify nodes uniquely.  The walks give two distinct nodes of a
\* document two distinct paths, so the dependency map holds at the path of every
\* leaf with placeholders the references of that very leaf, and the table of
\* targets holds at every requested path the node that is there.
C23_PathsIdentifyNodes ==
    (impl = "parsing" /\ pc # "start") =>
        /\ \A loc1 \in AllLocs(input) : \A loc2 \in AllLocs(input) :
              loc1 # loc2 => PathOf(input, loc1) # PathOf(input, loc2)
        /\ \A loc \in StringLocs(input) :
              HasPlaceholder(At(input, loc).s) =>
                  /\ PathOf(input, loc) \in DOMAIN path_map
                  /\ path_map[PathOf(input, loc)] =
                        DepsText(At(input, loc).s, 1, PathOf(input, loc), EmptyMap)
        /\ pc \in {"extracted", "done"} =>
              \A loc \in AllLocs(json_abs) :
                  PathOf(json_abs, loc) \in paths =>
                      /\ PathOf(json_abs, loc) \in DOMAIN extracted_values
                      /\ extracted_values[PathOf(json_abs, loc)] = At(json_abs, loc)

\* the number of `..` pieces a sequence of pieces begins with
RECURSIVE LeadingUps(_)
LeadingUps(pieces) ==
    IF pieces # <<>> /\ Head(pieces) = DotDot THEN 1 + LeadingUps(Tail(pieces)) ELSE 0

\* C24: up-references clamp at the root.  In resolve_with a reference that begins
\* with at least as many `..` as the directory of the base has segments is resolved
\* as the rest of the reference is from the root: a `..` with no segment left has
\* no effect and the later segments are pushed from the root.  The result is
\* always a well-formed absolute path, so never one above the root, and base
\* /a/b/c with `../../../d/e/` gives /d/e.
C24_UpReferencesClamp ==
    /\ pc = "resolve_with" =>
          LET segs == SegsOfText(resolved[1])
              pieces == Pieces(reference, <<>>)
              ups == LeadingUps(pieces)
              result == resolved[2]
          IN  /\ IsCanonical(result)
              /\ DotDot \notin Range(SegsOfText(result))
              /\ ups >= Len(DropLast(segs)) =>
                    result = PrintPath(Walk(<<>>, SubSeq(pieces, ups + 1, Len(pieces))))
    /\ resolve_with(AbsolutePath_new(<<Slash, "a", Slash, "b", Slash, "c", Slash>>),
                    DotDot \o <<Slash>> \o DotDot \o <<Slash>> \o DotDot
                        \o <<Slash, "d", Slash, "e", Slash>>)
          = <<Slash, "d", Slash, "e">>

\* C24 witness: `../a` resolved against a top-level leaf: the `..` found no segment
\* to pop and `a` was pushed from the root
C24_Witness ==
    /\ pc = "resolve_with"
    /\ resolved[1] = <<Slash, "b">>
    /\ reference = DotDot \o <<Slash, "a">>
    /\ resolved[2] = <<Slash, "a">>

\* after has the shape of before outside the string leaves of before: the same
\* keys in the same objects, the same number of elements in the same arrays, the
\* same null, boolean and number leaves; what a string leaf became is not looked at
RECURSIVE SameShape(_, _)
SameShape(before, after) ==
    CASE before.t = "str" -> TRUE
      [] IsContainer(before) ->
            /\ after.t = before.t
            /\ Len(after.kids) = Len(before.kids)
            /\ \A i \in 1..Len(before.kids) :
                  /\ after.kids[i][1] = before.kids[i][1]
                  /\ SameShape(before.kids[i][2], after.kids[i][2])
      [] OTHER -> after = before

\* C25: shape is preserved outside string leaves.  The output of
\* expand_absolute_paths has the keys, the array lengths and the null, boolean and
\* number leaves of its input, and every string leaf is still a string; the output
\* of resolve_values has the keys, the array lengths and the null, boolean and
\* number leaves of its input at every container that a substitution did not put
\* there.  Only string leaves differ.
C25_ShapePreserved ==
    impl = "parsing" =>
        /\ pc \in {"converted", "extracted", "done"} =>
              /\ SameShape(input, json_abs)
              /\ StringLocs(json_abs) = StringLocs(input)
        /\ pc = "done" => SameShape(json_abs, output)

\* C25 witness: an element of an array was replaced by a number and a member by a
\* string, next to null, boolean and number leaves that were kept
C25_Witness ==
    /\ Done("parsing")
    /\ input = ArrayDoc(<<Open, Slash, "n", Close>>, MaxNum)
    /\ At(output, <<4, 1>>) = Num(MaxNum)
    /\ At(output, <<4, 3>>) = Null
    /\ At(output, <<4, 4>>) = Bool(TRUE)
    /\ At(output, <<2>>) = Num(MaxNum)
    /\ SameShape(input, output)

\* the loop heads a scanning loop goes through from (text, pos): the text and the
\* start position at each head, and whether the iteration from that head leaves
\* the loop; at most fuel iterations are followed
LoopStep(loop, text, pos, map, path) ==
    CASE loop = "make_deps_path_map" -> DepsIteration(text, pos)
      [] loop = "expand_absolute_paths" -> ExpandIteration(text, pos, map, path)
      [] OTHER -> EmbeddedIteration(text, pos, map)

RECURSIVE LoopTrace(_, _, _, _, _, _)
LoopTrace(loop, text, pos, map, path, fuel) ==
    LET step == LoopStep(loop, text, pos, map, path)
        head == [text |-> text, pos |-> pos, done |-> step.done]
    IN  IF step.done \/ fuel = 0 THEN <<head>>
        ELSE <<head>> \o LoopTrace(loop, step.text, step.pos, map, path, fuel - 1)

\* the length of the unscanned suffix text[start_pos..] at a loop head
Unscanned(head) == Len(head.text) - head.pos + 1

\* the loop is left, and from every head to the next the unscanned suffix has
\* become strictly shorter
Finishes(trace) ==
    /\ trace[Len(trace)].done
    /\ \A i \in 1..(Len(trace) - 1) :
          /\ Unscanned(trace[i + 1]) < Unscanned(trace[i])
          /\ Unscanned(trace[i + 1]) >= 0

\* C26: every scanning loop of the parsing pipeline terminates.  On every string
\* leaf, the loops of make_deps_path_map, of expand_absolute_paths and of
\* resolve_embedded_refs go from head to head with a strictly shorter unscanned
\* suffix, whether a replacement is longer or shorter than the placeholder or
\* empty, and leave after at most as many iterations as the text has bytes; the
\* text the loop is left with is the text the stage returns.
C26_ScanningLoopsTerminate ==
    impl = "parsing" =>
        \A loc \in StringLocs(input) :
            LET text == At(input, loc).s
                path == PathOf(input, loc)
            IN  /\ Finishes(LoopTrace("make_deps_path_map", text, 1, EmptyMap, path,
                                      Len(text)))
                /\ pc \in {"converted", "extracted", "done"} =>
                      LET trace == LoopTrace("expand_absolute_paths", text, 1, path_map,
                                             path, Len(text))
                      IN  /\ Finishes(trace)
                          /\ At(json_abs, loc) = Str(trace[Len(trace)].text)
                /\ pc = "done" =>
                      LET expanded == At(json_abs, loc).s
                          trace == LoopTrace("resolve_embedded_refs", expanded, 1,
                                             extracted_values, path, Len(expanded))
                      IN  /\ Finishes(trace)
                          /\ resolve_embedded_refs(expanded, extracted_values)
                                = Str(trace[Len(trace)].text)

\* C26 witness: in one leaf a placeholder was rewritten to a shorter one and
\* another to a longer one, and both were then replaced by the empty string
C26_Witness ==
    /\ Done("parsing")
    /\ input = FlatDoc(<<Open, ".", ".", "/", "s", Close, Open, "s", Close>>, <<>>, MaxNum)
    /\ At(json_abs, <<1>>) = Str(<<Open, Slash, "s", Close, Open, Slash, "s", Close>>)
    /\ At(output, <<1>>) = Str(<<>>)

\* C27: path expansion is idempotent.  Collecting the dependencies of the expanded
\* document and expanding it again returns the expanded document: a placeholder
\* that is already absolute is rewritten to itself.
C27_ExpansionIdempotent ==
    (impl = "parsing" /\ pc \in {"converted", "extracted", "done"}) =>
        expand_absolute_paths(json_abs, make_deps_path_map(json_abs, Root, EmptyMap, order),
                              Root)
            = json_abs

\* C28: the substituter never resolves non-absolute reference text.  After
\* resolve_values and after resolve_recursive, a string leaf none of whose
\* placeholders has a reference that begins with `/` is the leaf as it was
\* written, whether a placeholder is embedded or is the whole string.
C28_NonAbsoluteLeftVerbatim ==
    pc \in {"resolve_values", "resolve_recursive"} =>
        \A loc \in StringLocs(input) :
            LET text == At(input, loc).s
                refs == Scan(text).refs
            IN  (\A i \in 1..Len(refs) : ~StartsWith(refs[i], Slash))
                => At(output, loc) = Str(text)

OtherOrder(ord) == IF ord = "fwd" THEN "rev" ELSE "fwd"

\* C29: determinism under traversal order.  When resolve_json has returned, the run
\* that visits the members of every object in the other order returns too, and
\* returns the same document.
C29_OrderIndependent ==
    Done("lib") =>
        /\ resolve_json(input, order) = [status |-> "ok", value |-> output]
        /\ resolve_json(input, OtherOrder(order)) = [status |-> "ok", value |-> output]

EmptyPlaceholder == <<Open, Close>>

\* C30: an empty placeholder is a reference to the parent container.  For a string
\* leaf of the input whose text is `{}`: the dependency map holds at the leaf's path
\* the empty reference, resolved to the path of the leaf's parent; the expanded
\* leaf is `{<parent path>}`; the table of targets holds at the parent's path the
\* expanded parent container, whole; and the result has that container in the place
\* of the leaf (the whole expanded document for a top-level leaf).
C30_EmptyPlaceholderIsParent ==
    impl = "parsing" =>
        \A loc \in StringLocs(input) :
            LET parent == DropLast(loc)
                parentPath == PathOf(input, parent)
                leafPath == PathOf(input, loc)
            IN  At(input, loc).s = EmptyPlaceholder =>
                  /\ pc # "start" =>
                        /\ leafPath \in DOMAIN path_map
                        /\ DOMAIN path_map[leafPath] = {<<>>}
                        /\ path_map[leafPath][<<>>] = parentPath
                  /\ pc \in {"converted", "extracted", "done"} =>
                        At(json_abs, loc) = Str(Placeholder(parentPath))
                  /\ pc \in {"extracted", "done"} =>
                        /\ parentPath \in DOMAIN extracted_values
                        /\ extracted_values[parentPath] = At(json_abs, parent)
                  /\ pc = "done" => At(output, loc) = At(json_abs, parent)

\* C30 witness: `{}` in a top-level leaf was replaced by the whole expanded
\* document, or `{}` in an element of an array by the expanded array
C30_Witness ==
    /\ Done("parsing")
    /\ \/ /\ input = FlatDoc(EmptyPlaceholder, <<"v">>, MaxNum)
          /\ At(json_abs, <<1>>) = Str(<<Open, Slash, Close>>)
          /\ At(output, <<1>>) = json_abs
       \/ /\ input = ArrayDoc(EmptyPlaceholder, MaxNum)
          /\ At(json_abs, <<4, 1>>) = Str(<<Open, Slash, "u", Close>>)
          /\ At(output, <<4, 1>>) = At(json_abs, <<4>>)

====
